---- MODULE Spec2Model ----
(***************************************************************************)
(* A model of the webapp REST API: the users table with its email          *)
(* verification lifecycle (routes/user.js, models/User.js), the products   *)
(* and images tables with the S3 object store (routes/product.js,          *)
(* routes/image.js, services/s3Service.js).                                *)
(*                                                                         *)
(* A handler that suspends on a database write after it has read the row   *)
(* is modelled as two steps (Start: the reads and checks, Save/Create: the *)
(* write and the response) so that two requests can interleave between the *)
(* read and the write.  The other handlers are one step each.              *)
(***************************************************************************)
EXTENDS Integers, Sequences, FiniteSets, TLC

VARIABLES
  users,      \* table users: sequence of rows, users[i].id = i
  now,        \* the clock, in seconds
  inflight,   \* slot -> the request suspended between its read and its write
  published,  \* messages accepted by the SNS topic
  resp,       \* the response sent in the last step (NoReply when none was)
  products,   \* table products: pid -> row, Absent when no such row
  images,     \* table Images: image_id -> row, Absent when no such row
  store,      \* the S3 bucket: set of objects [key, contentType]
  health      \* table health_checks: the number of rows

vars == <<users, now, inflight, published, resp, products, images, store, health>>

\* what the product and image routes leave alone
userVars == <<users, now, inflight, published, health>>
\* what the user routes leave alone
prodVars == <<products, images, store, health>>

\* ---------------------------------------------------------------- values

None == <<>>
Some(x) == <<x>>
Absent == [absent |-> TRUE]

Has(b, k) == k \in DOMAIN b

\* 60 * 1000 ms, in seconds
TokenTTL == 60

\* bounds of the model
TickStep == 60
MaxTime == 120
MaxInFlight == 2

Emails == {"a@x.io", "b@x.io"}
Salts == {"salt"}

Slots == 1..MaxInFlight
Idle == [kind |-> "idle"]

\* ------------------------------------------------------- models/User.js

\* bcrypt.hashSync(value, salt): the salt is part of the hash, the secret
\* is recoverable from it only by trying candidates.
Hash(value, salt) == <<"bcrypt", salt, value>>

\* bcrypt.compareSync(password, this.password): re-hash with the stored salt
validatePassword(u, password) == Hash(password, u.password[2]) = u.password

HiddenKeys == {"password", "verification_token", "verification_token_expiry"}

toJSONDropsPasswordOnly(u) == [k \in (DOMAIN u) \ {"password"} |-> u[k]]

\* User.prototype.toJSON: a copy of the row without the three secret fields
toJSON(u) == [k \in (DOMAIN u) \ HiddenKeys |-> u[k]]

\* the rows whose username is email; findOne returns the first of them
RowsByUsername(email) == {i \in 1..Len(users) : users[i].username = email}

findOne(email) ==
  IF RowsByUsername(email) = {} THEN None
  ELSE Some(CHOOSE i \in RowsByUsername(email) :
              \A j \in RowsByUsername(email) : i <= j)

UniqueAlwaysPasses(email) == TRUE

\* username: { unique: true }: the insert is refused when a row has the email
UsernameUnique(email) == RowsByUsername(email) = {}

\* ------------------------------------------ utils/validation.js (absent)

UserFields == {"first_name", "last_name", "password", "username"}

\* validateUserCreate: every field present and non-empty, username an email
validateUserCreate(b) ==
  {k \in UserFields : ~Has(b, k) \/ (Has(b, k) /\ b[k] = "")}
    \cup (IF Has(b, "username") /\ b.username \notin Emails
            THEN {"username"} ELSE {})

\* validateUserUpdate: a field that is present must be non-empty
validateUserUpdate(b) == {k \in DOMAIN b : b[k] = ""}

\* ------------------------------------------ middleware/auth.js (absent)

\* basicAuth: the row whose username and password match the credentials
basicAuth(cred) ==
  IF cred = None THEN None
  ELSE LET r == findOne(cred[1].email)
       IN IF r # None /\ validatePassword(users[r[1]], cred[1].password)
            THEN r ELSE None

\* ---------------------------------------------------------------- inputs

\* the bodies of POST /v1/user that register an email of the set emails, one
\* without password and one whose username is no email address
UserCreateBodies(emails) ==
  {[first_name |-> "f1", last_name |-> "l1", password |-> "pw1", username |-> e] :
     e \in emails}
  \cup {[first_name |-> "f1", last_name |-> "l1", username |-> "a@x.io"],
        [first_name |-> "f1", last_name |-> "l1", password |-> "pw1",
         username |-> "not-an-email"]}

UserUpdateBodies ==
  {[first_name |-> "f2", last_name |-> "l1", password |-> "pw2"],
   [first_name |-> "f2", last_name |-> "l1"],
   [first_name |-> "", last_name |-> "l1", password |-> "pw2"]}

Credentials ==
  {None} \cup {Some([email |-> e, password |-> "pw1"]) : e \in Emails}
         \cup {Some([email |-> "a@x.io", password |-> "pw2"])}

\* the token of the n-th registration (uuidv4(): fresh each time)
Token(n) == <<"tok", n>>

VerifyEmails == {None} \cup {Some(e) : e \in Emails}
VerifyTokens == {None, Some(<<"bad">>)} \cup {Some(Token(n)) : n \in 1..2}

\* the :userId path parameter: a UUID (of a row or of none) or another string
PathIds == {<<"uuid", n>> : n \in 1..2} \cup {<<"self">>}

\* isValidUUID
isValidUUID(p) == p[1] = "uuid"

\* --------------------------------------------------------------- helpers

\* at most cap requests are suspended at a time
FreeSlots(cap) == {s \in 1..cap : inflight[s] = Idle}

\* a new request takes the lowest free slot
NewSlot == CHOOSE s \in Slots : inflight[s] = Idle /\ \A t \in 1..(s - 1) : inflight[t] # Idle

\* no response was sent in the step
NoReply ==
  [op |-> "none", req |-> None, status |-> 0, msg |-> "", body |-> None,
   at |-> 0, upstream |-> FALSE]

\* a response of a user route
Reply(op, req, status, msg, body, at, upstream) ==
  [op |-> op, req |-> req, status |-> status, msg |-> msg,
   body |-> body, at |-> at, upstream |-> upstream]

Suspend(r) == inflight' = [inflight EXCEPT ![NewSlot] = r]
Resume(s) == inflight' = [inflight EXCEPT ![s] = Idle]

\* ------------------------------------------------- POST /v1/user (18-103)

\* up to the await of User.findOne and the duplicate check
RegStart(cap, b) ==
  LET req == [body |-> b] IN
  /\ FreeSlots(cap) # {}
  /\ UNCHANGED <<users, now, published, prodVars>>
  /\ IF validateUserCreate(b) # {}
       THEN /\ resp' = Reply("POST /v1/user", req, 400, "validation", None, now, FALSE)
            /\ UNCHANGED inflight
     ELSE \E dbOk \in BOOLEAN :
     IF ~dbOk
       THEN /\ resp' = Reply("POST /v1/user", req, 400, "Failed to create user",
                             None, now, TRUE)
            /\ UNCHANGED inflight
     ELSE IF findOne(b.username) # None
       THEN /\ resp' = Reply("POST /v1/user", req, 400,
                             "User with this email already exists", None, now, FALSE)
            /\ UNCHANGED inflight
     ELSE /\ Suspend([kind |-> "reg", body |-> b])
          /\ resp' = NoReply

\* the row User.create inserts
NewUser(b, t) ==
  [id |-> Len(users) + 1,
   first_name |-> b.first_name,
   last_name |-> b.last_name,
   password |-> Hash(b.password, CHOOSE s \in Salts : TRUE),
   username |-> b.username,
   account_created |-> t,
   account_updated |-> t,
   email_verified |-> FALSE,
   verification_token |-> Some(Token(Len(users) + 1)),
   verification_token_expiry |-> Some(t + TokenTTL)]

PublishFailureSurfaces(snsOk) == IF snsOk THEN 201 ELSE 500

\* the status after the try/catch around publishUserRegistration: the catch
\* logs and falls through to the 201
StatusAfterPublish(snsOk) == 201

\* from the token generation to the response: User.create, then the publish
RegCreate(s, dbOk, snsOk) ==
  LET b == inflight[s].body
      req == [body |-> b]
      row == NewUser(b, now)
  IN
  /\ inflight[s].kind = "reg"
  /\ Resume(s)
  /\ UNCHANGED <<now, prodVars>>
  /\ IF ~dbOk \/ ~UsernameUnique(b.username)
       THEN /\ resp' = Reply("POST /v1/user", req, 400, "Failed to create user",
                             None, now, TRUE)
            /\ UNCHANGED <<users, published>>
     ELSE /\ users' = Append(users, row)
          /\ published' = IF snsOk
                            THEN published \cup
                                   {[email |-> b.username, token |-> row.verification_token[1]]}
                            ELSE published
          /\ resp' = Reply("POST /v1/user", req, StatusAfterPublish(snsOk),
                           IF snsOk THEN "created" ELSE "created, publish failed",
                           Some(toJSON(row)), now, FALSE)

\* ------------------------------------------ GET /v1/user/verify (106-183)

ExpiredAtOrAfter(t, expiry) == expiry = None \/ t >= expiry[1]

\* now > user.verification_token_expiry (a null expiry compares as 0)
TokenExpired(t, expiry) == expiry = None \/ t > expiry[1]

NeverVerified(u) == FALSE

\* if (user.email_verified)
AlreadyVerified(u) == u.email_verified

FirstRowAlways(email) == IF users = <<>> THEN None ELSE Some(1)

\* User.findOne({ where: { username: email } }) of the verification handler
findByEmail(email) == findOne(email)

\* up to the await of user.save()
VerStart(cap, email, token) ==
  LET req == [email |-> email, token |-> token]
      found == findByEmail(email[1])
      u == users[found[1]]
      Answer(status, msg, up) ==
        /\ resp' = Reply("GET /v1/user/verify", req, status, msg, None, now, up)
        /\ UNCHANGED inflight
  IN
  /\ FreeSlots(cap) # {}
  /\ UNCHANGED <<users, now, published, prodVars>>
  /\ IF email = None \/ token = None
       THEN Answer(400, "Email and token are required", FALSE)
     ELSE \E dbOk \in BOOLEAN :
     IF ~dbOk
       THEN Answer(500, "Failed to verify email", TRUE)
     ELSE IF found = None
       THEN Answer(404, "User not found", FALSE)
     ELSE IF AlreadyVerified(u)
       THEN Answer(200, "Email already verified", FALSE)
     ELSE IF u.verification_token # token
       THEN Answer(400, "Invalid verification token", FALSE)
     ELSE IF TokenExpired(now, u.verification_token_expiry)
       THEN Answer(400, "Verification token has expired", FALSE)
     ELSE /\ Suspend([kind |-> "verify", id |-> u.id, req |-> req, at |-> now])
          /\ resp' = NoReply

SaveKeepsToken(u, t) ==
  [u EXCEPT !.email_verified = TRUE, !.account_updated = t]

\* the fields the verification changed, and account_updated (beforeUpdate)
SaveVerified(u, t) ==
  [u EXCEPT !.email_verified = TRUE,
            !.verification_token = None,
            !.verification_token_expiry = None,
            !.account_updated = t]

\* user.save() and the response
VerSave(s, dbOk) ==
  LET r == inflight[s] IN
  /\ r.kind = "verify"
  /\ Resume(s)
  /\ UNCHANGED <<now, published, prodVars>>
  /\ IF ~dbOk
       THEN /\ resp' = Reply("GET /v1/user/verify", r.req, 500,
                             "Failed to verify email", None, r.at, TRUE)
            /\ UNCHANGED users
     ELSE /\ users' = [users EXCEPT ![r.id] = SaveVerified(@, now)]
          /\ resp' = Reply("GET /v1/user/verify", r.req, 200,
                           "Email verified successfully", None, r.at, FALSE)

\* --------------------------------------- GET /v1/user/self (186-205)

GetSelf(cred) ==
  LET auth == basicAuth(cred)
      req == [actor |-> auth, cred |-> cred]
  IN
  /\ UNCHANGED <<userVars, prodVars>>
  /\ IF auth = None
       THEN resp' = Reply("GET /v1/user/self", req, 401, "unauthorized", None, now, FALSE)
       ELSE resp' = Reply("GET /v1/user/self", req, 200, "ok",
                          Some(toJSON(users[auth[1]])), now, FALSE)

\* ------------------------------------- GET /v1/user/:userId (208-259)

\* User.findByPk
findByPk(n) == IF n \in 1..Len(users) THEN Some(n) ELSE None

ForbiddenBeforeLookup(p, me) ==
  IF ~isValidUUID(p) THEN 400
  ELSE IF me # p[2] THEN 403
  ELSE IF findByPk(p[2]) = None THEN 404
  ELSE 0

\* the checks of GET and PUT /v1/user/:userId on the path parameter, in the
\* order of the handlers: the status of the early return, 0 when none is taken
UserIdChecks(p, me) ==
  IF ~isValidUUID(p) THEN 400
  ELSE IF findByPk(p[2]) = None THEN 404
  ELSE IF me # p[2] THEN 403
  ELSE 0

GetUser(cred, p) ==
  LET auth == basicAuth(cred)
      req == [actor |-> auth, path |-> p]
      Answer(status, msg, body, up) ==
        resp' = Reply("GET /v1/user/:userId", req, status, msg, body, now, up)
  IN
  /\ UNCHANGED <<userVars, prodVars>>
  /\ IF auth = None THEN Answer(401, "unauthorized", None, FALSE)
     ELSE IF ~isValidUUID(p) THEN Answer(400, "invalid uuid", None, FALSE)
     ELSE \E dbOk \in BOOLEAN :
     IF ~dbOk THEN Answer(400, "error", None, TRUE)
     ELSE IF UserIdChecks(p, users[auth[1]].id) # 0
       THEN Answer(UserIdChecks(p, users[auth[1]].id), "", None, FALSE)
     ELSE Answer(200, "ok", Some(toJSON(users[auth[1]])), FALSE)

\* ------------------------------------- PUT /v1/user/:userId (262-342)

\* up to the await of req.user.save()
PutUserStart(cap, cred, p, b) ==
  LET auth == basicAuth(cred)
      req == [actor |-> auth, path |-> p, body |-> b]
      me == users[auth[1]]
      Answer(status, msg, up) ==
        /\ resp' = Reply("PUT /v1/user/:userId", req, status, msg, None, now, up)
        /\ UNCHANGED inflight
  IN
  /\ FreeSlots(cap) # {}
  /\ UNCHANGED <<users, now, published, prodVars>>
  /\ IF auth = None THEN Answer(401, "unauthorized", FALSE)
     ELSE IF ~isValidUUID(p) THEN Answer(400, "invalid uuid", FALSE)
     ELSE \E dbOk \in BOOLEAN :
     IF ~dbOk THEN Answer(400, "error", TRUE)
     ELSE IF UserIdChecks(p, me.id) # 0 THEN Answer(UserIdChecks(p, me.id), "", FALSE)
     ELSE IF validateUserUpdate(b) # {} THEN Answer(400, "validation", FALSE)
     ELSE IF \E k \in {"first_name", "last_name", "password"} : ~Has(b, k) \/ b[k] = ""
       THEN Answer(400, "missing fields", FALSE)
     ELSE /\ Suspend([kind |-> "putuser", id |-> me.id, req |-> req,
                      first_name |-> me.first_name, last_name |-> me.last_name])
          /\ resp' = NoReply

SaveWholeRow(u, r, t) ==
  [u EXCEPT !.first_name = r.req.body.first_name,
            !.last_name = r.req.body.last_name,
            !.password = Hash(r.req.body.password, CHOOSE s \in Salts : TRUE),
            !.email_verified = FALSE,
            !.account_updated = t]

SaveKeepsPassword(u, r, t) ==
  [u EXCEPT !.first_name = IF r.req.body.first_name # r.first_name
                             THEN r.req.body.first_name ELSE @,
            !.last_name = IF r.req.body.last_name # r.last_name
                            THEN r.req.body.last_name ELSE @,
            !.account_updated = t]

\* save() writes the fields whose value differs from the one loaded; the
\* password setter always stores a new hash; beforeUpdate: account_updated
SaveProfile(u, r, t) ==
  [u EXCEPT !.first_name = IF r.req.body.first_name # r.first_name
                             THEN r.req.body.first_name ELSE @,
            !.last_name = IF r.req.body.last_name # r.last_name
                            THEN r.req.body.last_name ELSE @,
            !.password = Hash(r.req.body.password, CHOOSE s \in Salts : TRUE),
            !.account_updated = t]

\* req.user.save() and the response
PutUserSave(s, dbOk) ==
  LET r == inflight[s] IN
  /\ r.kind = "putuser"
  /\ Resume(s)
  /\ UNCHANGED <<now, published, prodVars>>
  /\ IF ~dbOk
       THEN /\ resp' = Reply("PUT /v1/user/:userId", r.req, 400, "error", None, now, TRUE)
            /\ UNCHANGED users
     ELSE /\ users' = [users EXCEPT ![r.id] = SaveProfile(@, r, now)]
          /\ resp' = Reply("PUT /v1/user/:userId", r.req, 204, "", None, now, FALSE)

\* ------------------------------------------------------------- the clock

Tick ==
  /\ now + TickStep <= MaxTime
  /\ now' = now + TickStep
  /\ resp' = NoReply
  /\ UNCHANGED <<users, inflight, published, prodVars>>

\* ================================================================
\* products, images and the bucket
\* ================================================================

\* bounds of the model
MaxProducts == 2
MaxImages == 1
MaxObjects == 2

\* fileSize: 5 * 1024 * 1024
FileSizeLimit == 5242880

ProductFields == {"name", "description", "sku", "manufacturer", "quantity"}

Present(t) == {i \in 1..Len(t) : t[i] # Absent}

\* ------------------------------------------ utils/validation.js (absent)

FieldError(b, k) ==
  IF k = "quantity" THEN b[k] < 0 ELSE b[k] = ""

\* validateProductCreate: the five fields, non-empty, quantity >= 0
validateProductCreate(b) ==
  {k \in ProductFields : ~Has(b, k)} \cup
  {k \in ProductFields \cap DOMAIN b : FieldError(b, k)}

\* validateProductUpdate: as for the creation
validateProductUpdate(b) == validateProductCreate(b)

\* validateProductPatch: the fields that are present are checked
validateProductPatch(b) == {k \in ProductFields \cap DOMAIN b : FieldError(b, k)}

\* ------------------------------------------- models/Product.js (absent)

\* sku: unique among the rows other than row pid
SkuUnique(pid, sku) ==
  \A q \in Present(products) : q = pid \/ products[q].sku # sku

\* Product.findByPk
findProduct(pid) == IF pid \in Present(products) THEN Some(products[pid]) ELSE None

\* ---------------------------------------------------------------- inputs

B1 == [name |-> "n1", description |-> "d1", sku |-> "s1", manufacturer |-> "m1",
       quantity |-> 1]
B2 == [name |-> "n2", description |-> "d2", sku |-> "s2", manufacturer |-> "m2",
       quantity |-> 2]

ProductBodies ==
  {B1, B2, [B1 EXCEPT !.quantity = -1], [name |-> "n1", sku |-> "s1", quantity |-> 1]}

\* a valid body that also names an owner and an id
Claimed ==
  [name |-> "n2", description |-> "d2", sku |-> "s2", manufacturer |-> "m2",
   quantity |-> 2, owner_user_id |-> 2, id |-> 7]

NoFields == [k \in {} |-> ""]

PatchBodies ==
  {NoFields, [color |-> "red"], [quantity |-> -1], [quantity |-> 2]}

ProductIds == 1..MaxProducts
ImageIds == 1..MaxImages

\* the file part of the upload: none, or a file of a name, a declared type
\* and a size
Photo == Some([ext |-> ".jpg", mimetype |-> "image/jpeg", size |-> 1024])
Text == Some([ext |-> ".txt", mimetype |-> "text/plain", size |-> 1024])
BigPhoto == Some([ext |-> ".png", mimetype |-> "image/png", size |-> 6291456])
Disguised == Some([ext |-> ".txt", mimetype |-> "image/png", size |-> 1024])

Files == {None, Photo, Text, BigPhoto, Disguised}

\* --------------------------------------------------------------- helpers

\* a response of a product or image route
Answer(op, req, status, body, upstream) ==
  resp' = Reply(op, req, status, "", body, 0, upstream)

\* ------------------------------------ GET /v1/product (product.js 10-34)

ListProducts(cred) ==
  LET auth == basicAuth(cred)
      req == [actor |-> auth]
  IN
  /\ UNCHANGED <<userVars, prodVars>>
  /\ IF auth = None THEN Answer("GET /v1/product", req, 401, None, FALSE)
     ELSE \E dbOk \in BOOLEAN :
     IF ~dbOk THEN Answer("GET /v1/product", req, 400, None, TRUE)
     ELSE Answer("GET /v1/product", req, 200,
                 Some({products[q] : q \in {i \in Present(products) :
                                              products[i].owner_user_id = auth[1]}}),
                 FALSE)

\* ----------------------------------- POST /v1/product (product.js 37-77)

NewProductOwnerFromBody(b, owner) ==
  [id |-> Len(products) + 1,
   name |-> b.name,
   description |-> b.description,
   sku |-> b.sku,
   manufacturer |-> b.manufacturer,
   quantity |-> b.quantity,
   owner_user_id |-> IF Has(b, "owner_user_id") THEN b.owner_user_id ELSE owner]

\* the row Product.create inserts (52-62)
NewProduct(b, owner) ==
  [id |-> Len(products) + 1,
   name |-> b.name,
   description |-> b.description,
   sku |-> b.sku,
   manufacturer |-> b.manufacturer,
   quantity |-> b.quantity,
   owner_user_id |-> owner]

PostProduct(cred, b) ==
  LET auth == basicAuth(cred)
      req == [actor |-> auth, body |-> b]
      op == "POST /v1/product"
  IN
  /\ UNCHANGED <<userVars, images, store>>
  /\ IF auth = None
       THEN Answer(op, req, 401, None, FALSE) /\ UNCHANGED products
     ELSE IF validateProductCreate(b) # {}
       THEN Answer(op, req, 400, None, FALSE) /\ UNCHANGED products
     ELSE \E dbOk \in BOOLEAN :
     IF ~dbOk \/ ~SkuUnique(0, b.sku)
       THEN Answer(op, req, 400, None, TRUE) /\ UNCHANGED products
     ELSE /\ Len(products) < MaxProducts
          /\ products' = Append(products, NewProduct(b, auth[1]))
          /\ Answer(op, req, 201, Some(NewProduct(b, auth[1])), FALSE)

\* ------------------------- GET /v1/product/:productId (product.js 80-119)

GetProduct(cred, pid) ==
  LET auth == basicAuth(cred)
      req == [actor |-> auth, pid |-> pid]
      op == "GET /v1/product/:productId"
      product == findProduct(pid)
  IN
  /\ UNCHANGED <<userVars, prodVars>>
  /\ IF auth = None THEN Answer(op, req, 401, None, FALSE)
     ELSE \E dbOk \in BOOLEAN :
     IF ~dbOk THEN Answer(op, req, 400, None, TRUE)
     ELSE IF product = None THEN Answer(op, req, 404, None, FALSE)
     ELSE IF product[1].owner_user_id # auth[1] THEN Answer(op, req, 403, None, FALSE)
     ELSE Answer(op, req, 200, product, FALSE)

\* ------------------------ PUT /v1/product/:productId (product.js 122-181)
\* ---------------------- PATCH /v1/product/:productId (product.js 184-256)

ValidateBeforeOwner(op, b, product, actor) ==
  IF product = None THEN 404
  ELSE IF op = "PUT /v1/product/:productId" /\ validateProductUpdate(b) # {} THEN 400
  ELSE IF op = "PATCH /v1/product/:productId" /\ validateProductPatch(b) # {} THEN 400
  ELSE IF op = "PATCH /v1/product/:productId" /\ ProductFields \cap DOMAIN b = {} THEN 400
  ELSE IF product[1].owner_user_id # actor THEN 403
  ELSE 0

\* the checks of PUT and PATCH between findByPk and the assignments, in the
\* order of the handler: the status of the early return, 0 when none is taken
UpdateChecks(op, b, product, actor) ==
  IF product = None THEN 404
  ELSE IF product[1].owner_user_id # actor THEN 403
  ELSE IF op = "PUT /v1/product/:productId" /\ validateProductUpdate(b) # {} THEN 400
  ELSE IF op = "PATCH /v1/product/:productId" /\ validateProductPatch(b) # {} THEN 400
  ELSE IF op = "PATCH /v1/product/:productId" /\ ProductFields \cap DOMAIN b = {} THEN 400
  ELSE 0

\* the fields the handler assigns: all five (PUT), those of the body (PATCH)
Assigned(op, b) ==
  IF op = "PUT /v1/product/:productId" THEN ProductFields
  ELSE ProductFields \cap DOMAIN b

\* the fields save() writes: those assigned a value other than the loaded one
Changed(op, b, loaded) == {k \in Assigned(op, b) : b[k] # loaded[k]}

SaveTakesOwnership(row, op, b, loaded, actor) ==
  [k \in DOMAIN row |->
     IF k \in Changed(op, b, loaded) THEN b[k]
     ELSE IF k = "owner_user_id" THEN actor ELSE row[k]]

\* the row after product.save()
SaveProduct(row, op, b, loaded, actor) ==
  [k \in DOMAIN row |-> IF k \in Changed(op, b, loaded) THEN b[k] ELSE row[k]]

\* the whole handler, the row loaded by findByPk being the one saved
UpdateProduct(op, cred, pid, b) ==
  LET auth == basicAuth(cred)
      req == [actor |-> auth, pid |-> pid, body |-> b]
      product == findProduct(pid)
  IN
  /\ UNCHANGED <<userVars, images, store>>
  /\ IF auth = None
       THEN Answer(op, req, 401, None, FALSE) /\ UNCHANGED products
     ELSE \E dbOk \in BOOLEAN :
     IF ~dbOk
       THEN Answer(op, req, 400, None, TRUE) /\ UNCHANGED products
     ELSE IF UpdateChecks(op, b, product, auth[1]) # 0
       THEN /\ Answer(op, req, UpdateChecks(op, b, product, auth[1]), None, FALSE)
            /\ UNCHANGED products
     ELSE \E dbOk2 \in BOOLEAN :
     IF ~dbOk2 \/ ("sku" \in Changed(op, b, product[1]) /\ ~SkuUnique(pid, b.sku))
       THEN Answer(op, req, 400, None, TRUE) /\ UNCHANGED products
     ELSE /\ products' = [products EXCEPT
                            ![pid] = SaveProduct(@, op, b, product[1], auth[1])]
          /\ Answer(op, req, 204, None, FALSE)

\* the same handlers in two steps, other requests running between the await
\* of findByPk and the await of save: up to the assignments
UpdateStart(cap, op, cred, pid, b) ==
  LET auth == basicAuth(cred)
      req == [actor |-> auth, pid |-> pid, body |-> b]
      product == findProduct(pid)
  IN
  /\ FreeSlots(cap) # {}
  /\ UNCHANGED <<users, now, published, health, prodVars>>
  /\ IF auth = None
       THEN Answer(op, req, 401, None, FALSE) /\ UNCHANGED inflight
     ELSE \E dbOk \in BOOLEAN :
     IF ~dbOk
       THEN Answer(op, req, 400, None, TRUE) /\ UNCHANGED inflight
     ELSE IF UpdateChecks(op, b, product, auth[1]) # 0
       THEN /\ Answer(op, req, UpdateChecks(op, b, product, auth[1]), None, FALSE)
            /\ UNCHANGED inflight
     ELSE /\ Suspend([kind |-> "update", op |-> op, req |-> req, loaded |-> product[1]])
          /\ resp' = NoReply

\* product.save() of the instance loaded by UpdateStart, and the response
UpdateSave(s, dbOk) ==
  LET r == inflight[s]
      pid == r.req.pid
      b == r.req.body
  IN
  /\ r.kind = "update"
  /\ Resume(s)
  /\ UNCHANGED <<users, now, published, health, images, store>>
  /\ IF \/ ~dbOk
        \/ pid \notin Present(products)
        \/ ("sku" \in Changed(r.op, b, r.loaded) /\ ~SkuUnique(pid, b.sku))
       THEN Answer(r.op, r.req, 400, None, TRUE) /\ UNCHANGED products
     ELSE /\ products' = [products EXCEPT
                            ![pid] = SaveProduct(@, r.op, b, r.loaded, r.req.actor[1])]
          /\ Answer(r.op, r.req, 204, None, FALSE)

\* --------------------- DELETE /v1/product/:productId (product.js 259-302)

DestroyKeepsImages(pid) ==
  /\ products' = [products EXCEPT ![pid] = Absent]
  /\ UNCHANGED images

\* product.destroy(): the row, and by ON DELETE CASCADE its Images rows
Destroy(pid) ==
  /\ products' = [products EXCEPT ![pid] = Absent]
  /\ images' = [i \in 1..Len(images) |->
                  IF images[i] # Absent /\ images[i].product_id = pid
                    THEN Absent ELSE images[i]]

DeleteSkipsOwner(product, actor) ==
  IF product = None THEN 404 ELSE 0

\* the checks of DELETE before product.destroy()
DeleteChecks(product, actor) ==
  IF product = None THEN 404
  ELSE IF product[1].owner_user_id # actor THEN 403
  ELSE 0

DeleteProduct(cred, pid) ==
  LET auth == basicAuth(cred)
      req == [actor |-> auth, pid |-> pid]
      op == "DELETE /v1/product/:productId"
      product == findProduct(pid)
  IN
  /\ UNCHANGED <<userVars, store>>
  /\ IF auth = None
       THEN Answer(op, req, 401, None, FALSE) /\ UNCHANGED <<products, images>>
     ELSE \E dbOk \in BOOLEAN :
     IF ~dbOk
       THEN Answer(op, req, 400, None, TRUE) /\ UNCHANGED <<products, images>>
     ELSE IF DeleteChecks(product, auth[1]) # 0
       THEN /\ Answer(op, req, DeleteChecks(product, auth[1]), None, FALSE)
            /\ UNCHANGED <<products, images>>
     ELSE \E dbOk2 \in BOOLEAN :
     IF ~dbOk2
       THEN Answer(op, req, 400, None, TRUE) /\ UNCHANGED <<products, images>>
     ELSE Destroy(pid) /\ Answer(op, req, 204, None, FALSE)

\* ------------------------------------------------ services/s3Service.js

\* the objects of the bucket under a key
ObjectsAt(key) == {o \in store : o.key = key}

UsedUuids == {o.key.uuid : o \in store} \cup
             {images[i].s3_bucket_path.uuid : i \in Present(images)}

\* crypto.randomUUID(): a value no key in use holds
FreshUuid == CHOOSE n \in 1..(Cardinality(UsedUuids) + 1) : n \notin UsedUuids

\* getContentType: by the extension of the file name
getContentType(extension) ==
  IF extension \in {".jpg", ".jpeg"} THEN "image/jpeg"
  ELSE IF extension = ".png" THEN "image/png"
  ELSE IF extension = ".gif" THEN "image/gif"
  ELSE "application/octet-stream"

\* the key uploadImageToS3 builds: userId/productId/uuid.ext
S3Key(file, userId, productId) ==
  [userId |-> userId, productId |-> productId, uuid |-> FreshUuid, ext |-> file.ext]

\* the object PutObjectCommand stores
S3Object(file, userId, productId) ==
  [key |-> S3Key(file, userId, productId), contentType |-> getContentType(file.ext)]

\* ------------------------------------------- routes/image.js (182-462)

\* multer: storage limits and fileFilter
allowedTypes == {"image/jpeg", "image/png", "image/jpg", "image/gif"}

FilterTypeOnly(file) ==
  file # None /\ file[1].mimetype \notin allowedTypes

MulterRejects(file) ==
  file # None /\ (file[1].mimetype \notin allowedTypes \/ file[1].size > FileSizeLimit)

FindAnyOwner(pid, userId) ==
  IF pid \in Present(products) THEN Some(products[pid]) ELSE None

\* Product.findOne({ where: { id: productId, owner_user_id: userId } })
FindOwned(pid, userId) ==
  IF pid \in Present(products) /\ products[pid].owner_user_id = userId
    THEN Some(products[pid]) ELSE None

FindImageOfAnyProduct(iid, pid) ==
  IF iid \in Present(images) THEN Some(images[iid]) ELSE None

\* Image.findOne({ where: { image_id: imageId, product_id: productId } })
FindImage(iid, pid) ==
  IF iid \in Present(images) /\ images[iid].product_id = pid
    THEN Some(images[iid]) ELSE None

NewImage(file, key, pid) ==
  [image_id |-> Len(images) + 1,
   product_id |-> pid,
   file_name |-> file.ext,
   s3_bucket_path |-> key]

UploadCatchAsProduct == 400

\* the catch block of the upload handler: res.status(500)
UploadCatchStatus == 500

\* POST /v1/product/:productId/image (210-284)
UploadImage(cred, pid, file) ==
  LET auth == basicAuth(cred)
      req == [actor |-> auth, pid |-> pid, file |-> file]
      op == "POST /v1/product/:productId/image"
      obj == S3Object(file[1], auth[1], pid)
      row == NewImage(file[1], obj.key, pid)
  IN
  /\ UNCHANGED <<userVars, products>>
  /\ IF auth = None
       THEN Answer(op, req, 401, None, FALSE) /\ UNCHANGED <<images, store>>
     ELSE IF MulterRejects(file)
       THEN Answer(op, req, 500, None, FALSE) /\ UNCHANGED <<images, store>>
     ELSE IF file = None
       THEN Answer(op, req, 400, None, FALSE) /\ UNCHANGED <<images, store>>
     ELSE \E dbOk \in BOOLEAN :
     IF ~dbOk
       THEN Answer(op, req, UploadCatchStatus, None, TRUE) /\ UNCHANGED <<images, store>>
     ELSE IF FindOwned(pid, auth[1]) = None
       THEN Answer(op, req, 403, None, FALSE) /\ UNCHANGED <<images, store>>
     ELSE \E s3Ok \in BOOLEAN :
     IF ~s3Ok
       THEN Answer(op, req, UploadCatchStatus, None, TRUE) /\ UNCHANGED <<images, store>>
     ELSE /\ Len(images) < MaxImages
          /\ Cardinality(store) < MaxObjects
          /\ store' = store \cup {obj}
          /\ \E dbOk2 \in BOOLEAN :
             IF ~dbOk2
               THEN Answer(op, req, UploadCatchStatus, None, TRUE) /\ UNCHANGED images
             ELSE /\ images' = Append(images, row)
                  /\ Answer(op, req, 201, Some(row), FALSE)

\* GET /v1/product/:productId/image/:imageId (287-345)
GetImage(cred, pid, iid) ==
  LET auth == basicAuth(cred)
      req == [actor |-> auth, pid |-> pid, iid |-> iid]
      op == "GET /v1/product/:productId/image/:imageId"
  IN
  /\ UNCHANGED <<userVars, prodVars>>
  /\ IF auth = None THEN Answer(op, req, 401, None, FALSE)
     ELSE \E dbOk \in BOOLEAN :
     IF ~dbOk THEN Answer(op, req, 500, None, TRUE)
     ELSE IF FindOwned(pid, auth[1]) = None THEN Answer(op, req, 403, None, FALSE)
     ELSE IF FindImage(iid, pid) = None THEN Answer(op, req, 404, None, FALSE)
     ELSE Answer(op, req, 200, FindImage(iid, pid), FALSE)

\* GET /v1/product/:productId/image (348-393)
ListImages(cred, pid) ==
  LET auth == basicAuth(cred)
      req == [actor |-> auth, pid |-> pid]
      op == "GET /v1/product/:productId/image"
  IN
  /\ UNCHANGED <<userVars, prodVars>>
  /\ IF auth = None THEN Answer(op, req, 401, None, FALSE)
     ELSE \E dbOk \in BOOLEAN :
     IF ~dbOk THEN Answer(op, req, 500, None, TRUE)
     ELSE IF FindOwned(pid, auth[1]) = None THEN Answer(op, req, 403, None, FALSE)
     ELSE Answer(op, req, 200,
                 Some({images[i] : i \in {j \in Present(images) :
                                            images[j].product_id = pid}}),
                 FALSE)

StorageFailureIgnored(s3Ok) == FALSE

\* await deleteImageFromS3(...) throws when the storage delete fails, and the
\* catch block answers before image.destroy() is reached
StorageFailureBlocks(s3Ok) == ~s3Ok

\* DELETE /v1/product/:productId/image/:imageId (396-460)
DeleteImage(cred, pid, iid) ==
  LET auth == basicAuth(cred)
      req == [actor |-> auth, pid |-> pid, iid |-> iid]
      op == "DELETE /v1/product/:productId/image/:imageId"
      image == FindImage(iid, pid)
  IN
  /\ UNCHANGED <<userVars, products>>
  /\ IF auth = None
       THEN Answer(op, req, 401, None, FALSE) /\ UNCHANGED <<images, store>>
     ELSE \E dbOk \in BOOLEAN :
     IF ~dbOk
       THEN Answer(op, req, 500, None, TRUE) /\ UNCHANGED <<images, store>>
     ELSE IF FindOwned(pid, auth[1]) = None
       THEN Answer(op, req, 403, None, FALSE) /\ UNCHANGED <<images, store>>
     ELSE IF image = None
       THEN Answer(op, req, 404, None, FALSE) /\ UNCHANGED <<images, store>>
     ELSE \E s3Ok \in BOOLEAN :
     IF StorageFailureBlocks(s3Ok)
       THEN Answer(op, req, 500, None, TRUE) /\ UNCHANGED <<images, store>>
     ELSE /\ store' = IF s3Ok THEN store \ ObjectsAt(image[1].s3_bucket_path)
                               ELSE store
          /\ \E dbOk2 \in BOOLEAN :
             IF ~dbOk2
               THEN Answer(op, req, 500, None, TRUE) /\ UNCHANGED images
             ELSE /\ images' = [images EXCEPT ![iid] = Absent]
                  /\ Answer(op, req, 204, None, FALSE)

\* ------------------------------------------------------ the users routes

Init ==
  /\ users = <<>>
  /\ now = 0
  /\ inflight = [s \in Slots |-> Idle]
  /\ published = {}
  /\ resp = NoReply
  /\ products = <<>>
  /\ images = <<>>
  /\ store = {}
  /\ health = 0

NextUser ==
  \/ \E b \in UserCreateBodies({"a@x.io"}) : RegStart(MaxInFlight, b)
  \/ \E s \in Slots, dbOk \in BOOLEAN, snsOk \in BOOLEAN : RegCreate(s, dbOk, snsOk)
  \/ \E e \in VerifyEmails, t \in VerifyTokens : VerStart(MaxInFlight, e, t)
  \/ \E s \in Slots, dbOk \in BOOLEAN : VerSave(s, dbOk)
  \/ \E c \in Credentials : GetSelf(c)
  \/ \E c \in Credentials, p \in PathIds : GetUser(c, p)
  \/ \E c \in Credentials, p \in PathIds, b \in UserUpdateBodies :
       PutUserStart(MaxInFlight, c, p, b)
  \/ \E s \in Slots, dbOk \in BOOLEAN : PutUserSave(s, dbOk)
  \/ Tick

SpecUser == Init /\ [][NextUser]_vars

\* registration, verification, and profile updates that arrive while the
\* identity is not verified and are saved at any later time
NextAbsorb ==
  \/ \E b \in UserCreateBodies({"a@x.io"}) : RegStart(MaxInFlight, b)
  \/ \E s \in Slots, dbOk \in BOOLEAN, snsOk \in BOOLEAN : RegCreate(s, dbOk, snsOk)
  \/ \E t \in {Some(<<"bad">>), Some(Token(1))} :
       VerStart(MaxInFlight, Some("a@x.io"), t)
  \/ \E s \in Slots, dbOk \in BOOLEAN : VerSave(s, dbOk)
  \/ /\ \E i \in 1..Len(users) : ~users[i].email_verified
     /\ \E b \in UserUpdateBodies :
          PutUserStart(MaxInFlight, Some([email |-> "a@x.io", password |-> "pw1"]),
                       <<"uuid", 1>>, b)
  \/ \E s \in Slots, dbOk \in BOOLEAN : PutUserSave(s, dbOk)
  \/ Tick

SpecAbsorb == Init /\ [][NextAbsorb]_vars

\* ------------------------------------- the product and image routes

\* a registered and verified identity
Registered(i, email) ==
  [id |-> i, first_name |-> "f1", last_name |-> "l1",
   password |-> Hash("pw1", CHOOSE s \in Salts : TRUE), username |-> email,
   account_created |-> 0, account_updated |-> 0, email_verified |-> TRUE,
   verification_token |-> None, verification_token_expiry |-> None]

\* two identities are registered, no product exists yet
InitProduct ==
  /\ users = <<Registered(1, "a@x.io"), Registered(2, "b@x.io")>>
  /\ now = 0
  /\ inflight = [s \in Slots |-> Idle]
  /\ published = {}
  /\ resp = NoReply
  /\ products = <<>>
  /\ images = <<>>
  /\ store = {}
  /\ health = 0

UpdateOps == {"PUT /v1/product/:productId", "PATCH /v1/product/:productId"}

BodiesOf(op) == IF op = "PUT /v1/product/:productId" THEN ProductBodies ELSE PatchBodies

\* the product routes
NextProduct ==
  \/ \E c \in Credentials : ListProducts(c)
  \/ \E c \in Credentials, b \in ProductBodies : PostProduct(c, b)
  \/ \E c \in Credentials, pid \in ProductIds : GetProduct(c, pid)
  \/ \E op \in UpdateOps : \E c \in Credentials, pid \in ProductIds, b \in BodiesOf(op) :
       UpdateProduct(op, c, pid, b)
  \/ \E c \in Credentials, pid \in ProductIds : DeleteProduct(c, pid)

SpecProduct == InitProduct /\ [][NextProduct]_vars

\* the credentials of the two registered identities
Owners == {Some([email |-> e, password |-> "pw1"]) : e \in Emails}

\* the image routes, with the creation and the deletion of products
NextImage ==
  \/ \E c \in Owners, b \in {B1, B2} : PostProduct(c, b)
  \/ \E c \in Owners, pid \in ProductIds : DeleteProduct(c, pid)
  \/ \E c \in Owners, pid \in ProductIds, f \in {None, Photo, Text} :
       UploadImage(c, pid, f)
  \/ \E c \in Owners, pid \in ProductIds, iid \in ImageIds : GetImage(c, pid, iid)
  \/ \E c \in Owners, pid \in ProductIds : ListImages(c, pid)
  \/ \E c \in Owners, pid \in ProductIds, iid \in ImageIds : DeleteImage(c, pid, iid)

SpecImage == InitProduct /\ [][NextImage]_vars

\* the routes that change a product, its images or the bucket
NextMutate ==
  \/ \E c \in Owners : PostProduct(c, B1)
  \/ \E c \in Owners, pid \in ProductIds, b \in {B2, [B1 EXCEPT !.quantity = -1]} :
       UpdateProduct("PUT /v1/product/:productId", c, pid, b)
  \/ \E c \in Owners, pid \in ProductIds, b \in {NoFields, [quantity |-> 2]} :
       UpdateProduct("PATCH /v1/product/:productId", c, pid, b)
  \/ \E c \in Owners, pid \in ProductIds : DeleteProduct(c, pid)
  \/ \E c \in Owners, pid \in ProductIds, f \in {None, Photo, Text} :
       UploadImage(c, pid, f)
  \/ \E c \in Owners, pid \in ProductIds, iid \in ImageIds : DeleteImage(c, pid, iid)

SpecMutate == InitProduct /\ [][NextMutate]_vars

\* the routes of a registered identity, with a :userId of no row
NextProfile ==
  \/ \E c \in Credentials : GetSelf(c)
  \/ \E c \in Credentials, p \in PathIds \cup {<<"uuid", 3>>} : GetUser(c, p)
  \/ \E c \in Credentials, p \in PathIds \cup {<<"uuid", 3>>}, b \in UserUpdateBodies :
       PutUserStart(MaxInFlight, c, p, b)
  \/ \E s \in Slots, dbOk \in BOOLEAN : PutUserSave(s, dbOk)

SpecProfile == InitProduct /\ [][NextProfile]_vars

\* the routes that could touch the owner of a product, and the listing
NextOwner ==
  \/ \E c \in Owners, b \in {B1, Claimed} : PostProduct(c, b)
  \/ \E c \in Owners, pid \in ProductIds :
       UpdateProduct("PUT /v1/product/:productId", c, pid, Claimed)
  \/ \E c \in Owners, pid \in ProductIds :
       UpdateProduct("PATCH /v1/product/:productId", c, pid,
                     [quantity |-> 2, owner_user_id |-> 2])
  \/ \E c \in Owners, pid \in ProductIds : UploadImage(c, pid, Photo)
  \/ \E c \in Owners, pid \in ProductIds, iid \in ImageIds : DeleteImage(c, pid, iid)
  \/ PutUserStart(1, Some([email |-> "a@x.io", password |-> "pw1"]), <<"uuid", 1>>,
                  [first_name |-> "f2", last_name |-> "l1", password |-> "pw2"])
  \/ \E dbOk \in BOOLEAN : PutUserSave(1, dbOk)
  \/ \E c \in Owners : ListProducts(c)

SpecOwner == InitProduct /\ [][NextOwner]_vars

\* a product of identity 1 exists
InitRace ==
  /\ users = <<Registered(1, "a@x.io"), Registered(2, "b@x.io")>>
  /\ now = 0
  /\ inflight = [s \in Slots |-> Idle]
  /\ published = {}
  /\ resp = NoReply
  /\ products = <<[B1 EXCEPT !.quantity = 2] @@ [id |-> 1, owner_user_id |-> 1]>>
  /\ images = <<>>
  /\ store = {}
  /\ health = 0

\* updates of the product, up to MaxInFlight of them between load and save
NextRace ==
  \/ \E c \in Owners, b \in {B1, B2} :
       UpdateStart(MaxInFlight, "PUT /v1/product/:productId", c, 1, b)
  \/ \E c \in Owners, b \in {NoFields, [quantity |-> 2]} :
       UpdateStart(MaxInFlight, "PATCH /v1/product/:productId", c, 1, b)
  \/ \E s \in Slots, dbOk \in BOOLEAN : UpdateSave(s, dbOk)

SpecRace == InitRace /\ [][NextRace]_vars

\* one identity is registered, a second email can still register
InitFrame ==
  /\ users = <<Registered(1, "a@x.io")>>
  /\ now = 0
  /\ inflight = [s \in Slots |-> Idle]
  /\ published = {}
  /\ resp = NoReply
  /\ products = <<>>
  /\ images = <<>>
  /\ store = {}
  /\ health = 0

\* the routes that write, each with requests it refuses, one request suspended
\* at a time
NextFrame ==
  \/ \E b \in UserCreateBodies({"b@x.io"}) : RegStart(1, b)
  \/ \E dbOk \in BOOLEAN, snsOk \in BOOLEAN : RegCreate(1, dbOk, snsOk)
  \/ \E p \in {<<"uuid", 1>>, <<"uuid", 2>>}, b \in UserUpdateBodies :
       PutUserStart(1, Some([email |-> "a@x.io", password |-> "pw1"]), p, b)
  \/ \E dbOk \in BOOLEAN : PutUserSave(1, dbOk)
  \/ \E c \in Owners, b \in {B1, [B1 EXCEPT !.quantity = -1]} : PostProduct(c, b)
  \/ \E c \in Owners, pid \in {1, 2} :
       UpdateProduct("PUT /v1/product/:productId", c, pid, [B1 EXCEPT !.quantity = -1])
  \/ \E c \in Owners, pid \in {1, 2}, b \in {NoFields, [quantity |-> -1]} :
       UpdateProduct("PATCH /v1/product/:productId", c, pid, b)
  \/ \E c \in Owners, pid \in {1, 2}, f \in {None, Photo} : UploadImage(c, pid, f)
  \/ \E c \in Owners, pid \in {1, 2} : DeleteImage(c, pid, 1)

SpecFrame == InitFrame /\ [][NextFrame]_vars

\* the routes that store a secret, and one that authenticates
NextSecret ==
  \/ \E b \in UserCreateBodies({"b@x.io"}) : RegStart(1, b)
  \/ \E dbOk \in BOOLEAN, snsOk \in BOOLEAN : RegCreate(1, dbOk, snsOk)
  \/ \E c \in Credentials, pw \in {"pw1", "pw2"} :
       PutUserStart(MaxInFlight, c, <<"uuid", 1>>,
                    [first_name |-> "f1", last_name |-> "l1", password |-> pw])
  \/ \E s \in Slots, dbOk \in BOOLEAN : PutUserSave(s, dbOk)
  \/ \E c \in Credentials : GetSelf(c)

SpecSecret == InitFrame /\ [][NextSecret]_vars

\* ------------------------------------------------ routes/health.js

\* bound of the model
MaxChecks == 4

\* the request: its method and its payload (none, or a body of a content
\* type; keys: the number of keys of the JSON value)
Methods == {"GET", "HEAD", "POST", "PUT", "DELETE"}

Payloads ==
  {None,
   Some([type |-> "application/json", keys |-> 1]),
   Some([type |-> "application/json", keys |-> 0]),
   Some([type |-> "text/plain", keys |-> 0])}

\* app.use(express.json()): req.body is the parsed value of a JSON body and
\* {} for a request without body or with a body of another content type;
\* the number of keys of req.body
BodyKeys(payload) ==
  IF payload # None /\ payload[1].type = "application/json"
    THEN payload[1].keys ELSE 0

\* router.get('/healthz') also serves HEAD (no router.head is registered)
RoutedToGet(method) == method \in {"GET", "HEAD"}

\* router.get('/healthz') (8-59) and router.all('/healthz') (62-71)
Healthz(method, payload) ==
  LET req == [method |-> method, payload |-> payload]
      Send(status, up) == resp' = Reply("/healthz", req, status, "", None, 0, up)
  IN
  /\ UNCHANGED <<users, now, inflight, published, products, images, store>>
  /\ IF ~RoutedToGet(method)
       THEN Send(405, FALSE) /\ UNCHANGED health
     ELSE IF BodyKeys(payload) > 0
       THEN Send(400, FALSE) /\ UNCHANGED health
     ELSE \E dbOk \in BOOLEAN :
     IF ~dbOk
       THEN Send(503, TRUE) /\ UNCHANGED health
     ELSE /\ health < MaxChecks
          /\ health' = health + 1
          /\ Send(200, FALSE)

NextHealth == \E m \in Methods, p \in Payloads : Healthz(m, p)

SpecHealth == Init /\ [][NextHealth]_vars

\* the upload with every kind of file part, on the products of one body
NextUpload ==
  \/ \E c \in Owners : PostProduct(c, B1)
  \/ \E c \in Owners, pid \in ProductIds, f \in Files : UploadImage(c, pid, f)
  \/ \E c \in Owners, pid \in ProductIds : ListImages(c, pid)

SpecUpload == InitProduct /\ [][NextUpload]_vars

\* ================================================================
\* properties of the product and image routes
\* ================================================================

ProductOps ==
  {"PUT /v1/product/:productId", "PATCH /v1/product/:productId",
   "DELETE /v1/product/:productId"}

ImageWriteOps ==
  {"POST /v1/product/:productId/image",
   "DELETE /v1/product/:productId/image/:imageId"}

ImageOps ==
  ImageWriteOps \cup {"GET /v1/product/:productId/image",
                      "GET /v1/product/:productId/image/:imageId"}

\* the request of the step is valid input for its operation
ValidInput(op, req) ==
  CASE op = "PUT /v1/product/:productId" ->
         /\ ProductFields \subseteq DOMAIN req.body
         /\ req.body.quantity >= 0
         /\ \A k \in ProductFields \ {"quantity"} : req.body[k] # ""
    [] op = "PATCH /v1/product/:productId" ->
         /\ ProductFields \cap DOMAIN req.body # {}
         /\ \A k \in ProductFields \cap DOMAIN req.body :
              IF k = "quantity" THEN req.body[k] >= 0 ELSE req.body[k] # ""
    [] op = "POST /v1/product/:productId/image" ->
         /\ req.file # None
         /\ req.file[1].mimetype \in {"image/jpeg", "image/png", "image/jpg", "image/gif"}
         /\ req.file[1].size <= 5 * 1024 * 1024
    [] op = "DELETE /v1/product/:productId/image/:imageId" ->
         /\ req.iid \in Present(images)
         /\ images[req.iid].product_id = req.pid
    [] OTHER -> TRUE

\* C1: for an authenticated actor and an existing product of another owner,
\* PUT, PATCH and DELETE on the product and the image upload and image delete
\* are answered 403 and leave products, images and the bucket unchanged; for
\* the owner with valid input the operation succeeds (201 or 204).  The
\* answers to a failing collaborator are left out of the statement.
C1_OwnershipGate ==
  [][(/\ resp'.op \in ProductOps \cup ImageWriteOps
      /\ resp'.req.actor # None
      /\ ~resp'.upstream
      /\ resp'.req.pid \in Present(products))
     => IF products[resp'.req.pid].owner_user_id # resp'.req.actor[1]
          THEN resp'.status = 403 /\ UNCHANGED prodVars
          ELSE ValidInput(resp'.op, resp'.req) => resp'.status \in {201, 204}]_vars

FilePartFails(op, req) ==
  /\ op = "POST /v1/product/:productId/image"
  /\ \/ req.file = None
     \/ req.file[1].mimetype \notin {"image/jpeg", "image/png", "image/jpg", "image/gif"}
     \/ req.file[1].size > 5 * 1024 * 1024

\* the product exists and is the actor's
OwnedBy(pid, actor) ==
  pid \in Present(products) /\ products[pid].owner_user_id = actor

\* C3 as stated: in the image handlers a product id that does not exist is
\* answered 404, and 403 is answered only for an existing product of another
\* owner.
C3_MissingProduct404 ==
  [][(/\ resp'.op \in ImageOps
      /\ resp'.req.actor # None
      /\ ~resp'.upstream
      /\ ~FilePartFails(resp'.op, resp'.req))
     => /\ resp'.req.pid \notin Present(products) => resp'.status = 404
        /\ resp'.status = 403 => resp'.req.pid \in Present(products)]_vars

\* C3 amended: the image handlers look the product up by id and owner in one
\* query, so they answer 403 exactly when the product does not exist or is
\* another owner's, and 404 only for a missing image of the actor's own
\* product; the upload checks its file part first (400 without a file, 500 for
\* a refused one).
C3_ImageGuard ==
  [][(/\ resp'.op \in ImageOps
      /\ resp'.req.actor # None
      /\ ~resp'.upstream)
     => IF FilePartFails(resp'.op, resp'.req)
          THEN resp'.status = IF resp'.req.file = None THEN 400 ELSE 500
          ELSE /\ resp'.status = 403 <=> ~OwnedBy(resp'.req.pid, resp'.req.actor[1])
               /\ resp'.status = 404 =>
                    /\ resp'.op \in {"GET /v1/product/:productId/image/:imageId",
                                     "DELETE /v1/product/:productId/image/:imageId"}
                    /\ ~(/\ resp'.req.iid \in Present(images)
                         /\ images[resp'.req.iid].product_id = resp'.req.pid)]_vars

\* C3 witness: an image request for a product id that does not exist was
\* answered 403
C3_MissingProduct403 ==
  /\ resp.op \in ImageOps
  /\ resp.req.actor # None
  /\ resp.req.pid \notin Present(products)
  /\ resp.status = 403

\* ================================================================
\* properties of the user routes
\* ================================================================

\* the rows of the table whose username is the email
RowsOf(email) == {i \in 1..Len(users) : users[i].username = email}

\* the step answered a verification request that named an email and a token
VerifyReply ==
  /\ resp'.op = "GET /v1/user/verify"
  /\ resp'.req.email # None
  /\ resp'.req.token # None

\* C4: for an unverified identity with a pending token, a verification with
\* the matching token whose check ran at a time at <= the expiry (the expiry
\* instant included) is answered 200 and leaves the identity verified with
\* token and expiry null; at a time at > the expiry it is answered 400
\* "Verification token has expired" (the database not failing).
C4_VerifyByExpiry ==
  [][(VerifyReply /\ ~resp'.upstream) =>
       \A i \in RowsOf(resp'.req.email[1]) :
         (/\ ~users[i].email_verified
          /\ users[i].verification_token # None
          /\ users[i].verification_token = resp'.req.token)
         => IF resp'.at <= users[i].verification_token_expiry[1]
              THEN /\ resp'.status = 200
                   /\ users'[i].email_verified
                   /\ users'[i].verification_token = None
                   /\ users'[i].verification_token_expiry = None
              ELSE /\ resp'.status = 400
                   /\ resp'.msg = "Verification token has expired"
                   /\ users' = users]_vars

\* C4 witness: a verification checked at the exact expiry instant succeeded
C4_VerifiedAtExpiryInstant ==
  /\ resp.op = "GET /v1/user/verify"
  /\ resp.status = 200
  /\ resp.msg = "Email verified successfully"
  /\ \E i \in 1..Len(users) :
       /\ Some(users[i].username) = resp.req.email
       /\ resp.at = users[i].account_created + 60
       /\ users[i].email_verified
       /\ users[i].verification_token = None
       /\ users[i].verification_token_expiry = None

\* C5: a verification that is not answered 200 leaves the users table
\* unchanged, and the failures map to their codes: a missing email or token
\* 400, an unknown email 404, a token other than the stored one 400 "Invalid
\* verification token", the matching token after the expiry 400 "Verification
\* token has expired".
C5_FailedVerifyKeepsIdentity ==
  [][resp'.op = "GET /v1/user/verify" =>
       /\ resp'.status # 200 => users' = users
       /\ ~resp'.upstream =>
            IF resp'.req.email = None \/ resp'.req.token = None
              THEN resp'.status = 400 /\ resp'.msg = "Email and token are required"
            ELSE IF RowsOf(resp'.req.email[1]) = {}
              THEN resp'.status = 404
            ELSE \A i \in RowsOf(resp'.req.email[1]) :
                   ~users[i].email_verified =>
                     IF users[i].verification_token # resp'.req.token
                       THEN /\ resp'.status = 400
                            /\ resp'.msg = "Invalid verification token"
                     ELSE resp'.at > users[i].verification_token_expiry[1] =>
                            /\ resp'.status = 400
                            /\ resp'.msg = "Verification token has expired"]_vars

\* C5 witness: the matching token was refused after the expiry and the
\* identity is still unverified with its token and expiry
C5_ExpiredTokenKept ==
  /\ resp.op = "GET /v1/user/verify"
  /\ resp.status = 400
  /\ resp.msg = "Verification token has expired"
  /\ \E i \in 1..Len(users) :
       /\ Some(users[i].username) = resp.req.email
       /\ ~users[i].email_verified
       /\ users[i].verification_token = resp.req.token
       /\ users[i].verification_token_expiry # None
       /\ resp.at > users[i].verification_token_expiry[1]

\* C6: a verification request that finds the identity already verified is
\* answered 200 and leaves the users table unchanged, whatever token it
\* carries (the request is read and answered in the step: no suspended
\* request is resumed).
C6_AlreadyVerifiedNoChange ==
  [][(VerifyReply /\ ~resp'.upstream /\ inflight' = inflight) =>
       \A i \in RowsOf(resp'.req.email[1]) :
         users[i].email_verified => resp'.status = 200 /\ users' = users]_vars

\* C6 witness: a token that never matched was answered 200 for a verified
\* identity
C6_VerifiedBadToken200 ==
  /\ resp.op = "GET /v1/user/verify"
  /\ resp.status = 200
  /\ resp.req.token = Some(<<"bad">>)
  /\ \E i \in 1..Len(users) :
       /\ Some(users[i].username) = resp.req.email
       /\ users[i].email_verified

\* C7: in every reachable state every identity that is verified has a null
\* token, and its token and expiry are both null or both set.
C7_TokenInvariant ==
  \A i \in 1..Len(users) :
    /\ users[i].email_verified => users[i].verification_token = None
    /\ users[i].verification_token = None <=> users[i].verification_token_expiry = None

\* C7 witness: an identity was verified and then changed its profile
C7_VerifiedAndUpdated ==
  \E i \in 1..Len(users) :
    /\ users[i].email_verified
    /\ users[i].first_name = "f2"
    /\ users[i].verification_token = None

\* C8 as stated: a request that reports "Email verified successfully" performs
\* the transition itself, so the identity was unverified just before the
\* answer; no second request reports it for the same identity.
C8_VerifiedOnce ==
  [][(resp'.op = "GET /v1/user/verify" /\ resp'.msg = "Email verified successfully") =>
       \A i \in RowsOf(resp'.req.email[1]) : ~users[i].email_verified]_vars

\* C9: no two identities share an email, also when two registrations of the
\* email are suspended between the lookup and the insert; a registration of
\* an email that is registered is answered 400, leaves the users table
\* unchanged and publishes nothing.
C9_OneIdentityPerEmail ==
  [][/\ \A i, j \in 1..Len(users') : users'[i].username = users'[j].username => i = j
     /\ (/\ resp'.op = "POST /v1/user"
         /\ "username" \in DOMAIN resp'.req.body
         /\ RowsOf(resp'.req.body.username) # {})
        => /\ resp'.status = 400
           /\ users' = users
           /\ published' = published]_vars

\* C9 witness: a registration of a registered email was refused; one identity
\* and one notification exist
C9_DuplicateRefused ==
  /\ resp.op = "POST /v1/user"
  /\ resp.status = 400
  /\ resp.msg = "User with this email already exists"
  /\ Cardinality(RowsOf(resp.req.body.username)) = 1
  /\ Cardinality(published) = 1

UserBodyOps == {"POST /v1/user", "GET /v1/user/self", "GET /v1/user/:userId"}

\* C10: the identity in the body of a 201 of POST /v1/user and of a 200 of
\* GET /v1/user/self and GET /v1/user/:userId has no password,
\* verification_token or verification_token_expiry field.
C10_BodyOmitsSecrets ==
  (resp.op \in UserBodyOps /\ resp.body # None) =>
    /\ "password" \notin DOMAIN resp.body[1]
    /\ "verification_token" \notin DOMAIN resp.body[1]
    /\ "verification_token_expiry" \notin DOMAIN resp.body[1]
    /\ "username" \in DOMAIN resp.body[1]

\* C10 witness: a verified identity was serialized by GET /v1/user/self
C10_VerifiedSerialized ==
  /\ resp.op = "GET /v1/user/self"
  /\ resp.status = 200
  /\ resp.body # None
  /\ resp.body[1].email_verified

\* C11: a valid registration whose publish fails is answered 201 with the
\* serialized identity, the identity is stored unverified with its token and
\* expiry, and nothing reaches the topic in that request (one attempt, no
\* retry); a message reaches the topic only in a registration whose publish
\* succeeded.
C11_PublishFailureSwallowed ==
  [][/\ (resp'.op = "POST /v1/user" /\ resp'.msg = "created, publish failed")
        => /\ resp'.status = 201
           /\ resp'.body # None
           /\ resp'.body[1].username = resp'.req.body.username
           /\ ~resp'.body[1].email_verified
           /\ Len(users') = Len(users) + 1
           /\ ~users'[Len(users')].email_verified
           /\ users'[Len(users')].username = resp'.req.body.username
           /\ users'[Len(users')].verification_token # None
           /\ users'[Len(users')].verification_token_expiry = Some(now + 60)
           /\ published' = published
     /\ published' # published
        => /\ resp'.op = "POST /v1/user"
           /\ resp'.msg = "created"
           /\ Cardinality(published') = Cardinality(published) + 1]_vars

\* C11 witness: an identity was registered, the publish failed, the answer
\* was 201 and the topic holds no message
C11_CreatedWithoutMessage ==
  /\ resp.op = "POST /v1/user"
  /\ resp.status = 201
  /\ resp.msg = "created, publish failed"
  /\ published = {}
  /\ \E i \in 1..Len(users) :
       /\ users[i].username = resp.req.body.username
       /\ ~users[i].email_verified
       /\ users[i].verification_token # None

\* the images of product pid in the table
ImagesOf(pid) == {i \in Present(images) : images[i].product_id = pid}

\* C12 as stated: after a DELETE /v1/product/:productId answered 204, no
\* Images row of the product remains and no object stored under the path of
\* one of its images remains in the bucket.
C12_DeleteRemovesImagesAndObjects ==
  [][(resp'.op = "DELETE /v1/product/:productId" /\ resp'.status = 204)
     => /\ \A i \in Present(images') : images'[i].product_id # resp'.req.pid
        /\ \A i \in ImagesOf(resp'.req.pid) :
             \A o \in store' : o.key # images[i].s3_bucket_path]_vars

\* C13: in DELETE /v1/product/:productId/image/:imageId an Images row is
\* removed only in a request answered 204 after which no object is stored
\* under the row's path; a request that leaves the row's object in the bucket
\* (the storage delete failed) is answered 500 and leaves the row in place;
\* no answer other than 204 removes a row.
C13_StorageDeleteFirst ==
  [][resp'.op = "DELETE /v1/product/:productId/image/:imageId" =>
       /\ resp'.status # 204 => images' = images
       /\ \A i \in Present(images) :
            /\ i \notin Present(images')
               => /\ resp'.status = 204
                  /\ i = resp'.req.iid
                  /\ \A o \in store' : o.key # images[i].s3_bucket_path
            /\ (/\ i = resp'.req.iid
                /\ images[i].product_id = resp'.req.pid
                /\ resp'.req.actor # None
                /\ OwnedBy(resp'.req.pid, resp'.req.actor[1])
                /\ \E o \in store' : o.key = images[i].s3_bucket_path)
               => /\ resp'.status = 500
                  /\ images' = images
                  /\ store' = store]_vars

\* C13 witness: the storage delete of an image failed: the answer was 500,
\* the row and its object are both still there
C13_RowKeptAfterStorageFailure ==
  /\ resp.op = "DELETE /v1/product/:productId/image/:imageId"
  /\ resp.status = 500
  /\ resp.req.iid \in Present(images)
  /\ images[resp.req.iid].product_id = resp.req.pid
  /\ \E o \in store : o.key = images[resp.req.iid].s3_bucket_path

\* C14: an upload whose file is larger than 5 MB or whose declared content
\* type is not JPEG, PNG or GIF is refused: it is not answered 2xx, no object
\* is put into the bucket and no Images row is inserted.
C14_RefusedBeforeStorage ==
  [][(/\ resp'.op = "POST /v1/product/:productId/image"
      /\ resp'.req.file # None
      /\ \/ resp'.req.file[1].size > 5 * 1024 * 1024
         \/ resp'.req.file[1].mimetype \notin
              {"image/jpeg", "image/jpg", "image/png", "image/gif"})
     => /\ resp'.status >= 400
        /\ store' = store
        /\ images' = images]_vars

\* C14 witness: the owner of a product sent a 6 MB PNG and was refused
C14_OversizeRefused ==
  /\ resp.op = "POST /v1/product/:productId/image"
  /\ resp.req.file # None
  /\ resp.req.file[1].size = 6291456
  /\ resp.req.actor # None
  /\ OwnedBy(resp.req.pid, resp.req.actor[1])
  /\ resp.status = 500
  /\ store = {}

\* C15 as stated: every object in the bucket has a content type of the
\* allow-list, and none is stored under a name with the extension .txt.
C15_StoredTypesAllowed ==
  \A o \in store :
    /\ o.contentType \in {"image/jpeg", "image/png", "image/gif"}
    /\ o.key.ext # ".txt"

\* C16 as stated: a GET /healthz without payload is answered 200 when the
\* insert succeeds and 503 when it fails, a GET with any payload 400, any
\* other method 405; a 200 inserts exactly one health-check row and no other
\* answer inserts one.
C16_HealthzOutcomes ==
  [][resp'.op = "/healthz" =>
       /\ IF resp'.req.method # "GET" THEN resp'.status = 405
          ELSE IF resp'.req.payload # None THEN resp'.status = 400
          ELSE resp'.status = IF resp'.upstream THEN 503 ELSE 200
       /\ health' = IF resp'.status = 200 THEN health + 1 ELSE health]_vars

UserIdOps == {"GET /v1/user/:userId", "PUT /v1/user/:userId"}

\* C17 as stated: an authenticated request on /v1/user/:userId whose id is
\* a UUID other than the actor's own is answered 403, whether or not a row
\* has that id, and changes no identity.
C17_OtherIdForbidden ==
  [][(/\ resp'.op \in UserIdOps
      /\ resp'.req.actor # None
      /\ ~resp'.upstream
      /\ resp'.req.path[1] = "uuid"
      /\ resp'.req.path[2] # resp'.req.actor[1])
     => resp'.status = 403 /\ users' = users]_vars

\* C17 amended: GET and PUT /v1/user/:userId are answered 2xx only for the
\* actor's own id; an id that is no UUID is answered 400, a UUID of no row
\* 404, the id of another identity 403, in that order, and none of these
\* changes an identity; a PUT changes the actor's row only.
C17_UserIdGuard ==
  [][(/\ resp'.op \in UserIdOps
      /\ resp'.req.actor # None
      /\ ~resp'.upstream)
     => /\ IF resp'.req.path[1] # "uuid" THEN resp'.status = 400
           ELSE IF resp'.req.path[2] \notin 1..Len(users) THEN resp'.status = 404
           ELSE IF resp'.req.path[2] # resp'.req.actor[1] THEN resp'.status = 403
           ELSE resp'.status \in {200, 204, 400}
        /\ resp'.status \notin {200, 204} => users' = users
        /\ \A i \in 1..Len(users) : i # resp'.req.actor[1] => users'[i] = users[i]]_vars

\* C17 witness: a request naming a UUID of no row was answered 404
C17_UnknownId404 ==
  /\ resp.op \in UserIdOps
  /\ resp.req.actor # None
  /\ resp.req.path = <<"uuid", 3>>
  /\ resp.status = 404

\* C18 as stated: a PUT /v1/user/self by an authenticated identity with
\* first_name, last_name and password all present is answered 204 and stores
\* the new names in the identity's row.
C18_PutSelfUpdates ==
  [][(/\ resp'.op = "PUT /v1/user/:userId"
      /\ resp'.req.path = <<"self">>
      /\ resp'.req.actor # None
      /\ ~resp'.upstream
      /\ {"first_name", "last_name", "password"} \subseteq DOMAIN resp'.req.body
      /\ \A k \in {"first_name", "last_name", "password"} : resp'.req.body[k] # "")
     => /\ resp'.status = 204
        /\ users'[resp'.req.actor[1]].first_name = resp'.req.body.first_name
        /\ users'[resp'.req.actor[1]].last_name = resp'.req.body.last_name]_vars

\* C19 as stated: GET /v1/product/:productId of an existing product is
\* answered 200 with the product to any caller, authenticated or not, owner
\* or not (the lookup not failing).
C19_GetProductPublic ==
  [][(/\ resp'.op = "GET /v1/product/:productId"
      /\ ~resp'.upstream
      /\ resp'.req.pid \in Present(products))
     => /\ resp'.status = 200
        /\ resp'.body = Some(products[resp'.req.pid])]_vars

\* C20 as stated: an answer caused by a failing collaborator has status 500,
\* and 503 for the health check; it never has a 4xx status.
C20_UpstreamIs5xx ==
  [][resp'.upstream =>
       resp'.status = IF resp'.op = "/healthz" THEN 503 ELSE 500]_vars

\* C21: a request answered 400, 403 or 404 changes nothing: the users,
\* products and Images tables and the bucket are the same before and after
\* it, and no message is published.
C21_RejectionChangesNothing ==
  [][resp'.status \in {400, 403, 404}
     => UNCHANGED <<users, products, images, store, published, health>>]_vars

\* C21 witness: an upload to another identity's product was answered 403
\* while an image of the product and its object exist
C21_ForbiddenUploadWithImages ==
  /\ resp.op = "POST /v1/product/:productId/image"
  /\ resp.status = 403
  /\ resp.req.pid \in Present(products)
  /\ Present(images) # {}
  /\ store # {}
  /\ Len(users) = 2

\* C22: a PATCH by the owner whose body holds none of the five fields is
\* answered 400 and changes no product; a PATCH answered 204 has set the
\* fields of the body among the five and left every other field of the row,
\* the owner included, and every other row as it was; a PUT answered 204 has
\* set all five fields to those of the body.
C22_PatchAndPutWrites ==
  [][LET r == resp'
         pid == r.req.pid
         b == r.req.body
     IN
     /\ (/\ r.op = "PATCH /v1/product/:productId"
         /\ r.req.actor # None
         /\ pid \in Present(products)
         /\ products[pid].owner_user_id = r.req.actor[1]
         /\ ProductFields \cap DOMAIN b = {})
        => (r.status = 400 /\ products' = products)
     /\ (r.op = "PATCH /v1/product/:productId" /\ r.status = 204)
        => /\ \A q \in 1..Len(products) : q # pid => products'[q] = products[q]
           /\ \A k \in DOMAIN products[pid] :
                products'[pid][k] =
                  IF k \in ProductFields \cap DOMAIN b THEN b[k] ELSE products[pid][k]
     /\ (r.op = "PUT /v1/product/:productId" /\ r.status = 204)
        => /\ \A q \in 1..Len(products) : q # pid => products'[q] = products[q]
           /\ \A k \in DOMAIN products[pid] :
                products'[pid][k] =
                  IF k \in ProductFields THEN b[k] ELSE products[pid][k]
    ]_vars

\* C23: a product is created only by POST /v1/product and its owner is the
\* authenticated caller whatever the body says; no step changes the owner of
\* a product that stays; GET /v1/product answers exactly the rows whose owner
\* is the caller.
C23_OwnerIsCreator ==
  [][LET r == resp' IN
     /\ \A q \in Present(products) \cap Present(products') :
          products'[q].owner_user_id = products[q].owner_user_id
     /\ Present(products') \ Present(products) # {}
        => /\ r.op = "POST /v1/product" /\ r.status = 201
           /\ Present(products') \ Present(products) = {Len(products')}
           /\ products'[Len(products')].owner_user_id = r.req.actor[1]
     /\ (r.op = "GET /v1/product" /\ r.status = 200)
        => r.body = Some({products[q] : q \in {i \in Present(products) :
                            products[i].owner_user_id = r.req.actor[1]}})
    ]_vars

\* C23 witness: identity 1 created a product with a body naming identity 2 as
\* owner, and the row belongs to identity 1
C23_BodyOwnerIgnored ==
  /\ resp.op = "POST /v1/product"
  /\ resp.status = 201
  /\ resp.req.body = Claimed
  /\ resp.req.actor = Some(1)
  /\ products[Len(products)].owner_user_id = 1
  /\ products[Len(products)].sku = "s2"

\* the rows a secret opens: the username is the email and the stored hash
\* compares equal to the hash of the secret under the stored salt
Opens(cred) ==
  {i \in 1..Len(users) :
     /\ users[i].username = cred.email
     /\ users[i].password = <<"bcrypt", users[i].password[2], cred.password>>}

\* C24: the stored credential of an identity is the salted hash of the secret
\* of the request accepted last for it (the registration answered 201, a
\* profile update answered 204) and no other step changes it; a request
\* authenticates exactly when its email is a row's and its secret hashes to
\* the stored value; an unknown email and a wrong secret are answered alike.
C24_StoredSecretIsHashOfLast ==
  [][LET r == resp' IN
     /\ \A i \in 1..Len(users') :
          /\ users'[i].password[1] = "bcrypt"
          /\ users'[i].password[2] \in Salts
     /\ (r.op = "POST /v1/user" /\ r.status = 201)
        => /\ Len(users') = Len(users) + 1
           /\ users'[Len(users')].password[3] = r.req.body.password
           /\ \A i \in 1..Len(users) : users'[i].password = users[i].password
     /\ (r.op = "PUT /v1/user/:userId" /\ r.status = 204)
        => /\ Len(users') = Len(users)
           /\ users'[r.req.actor[1]].password[3] = r.req.body.password
           /\ \A i \in 1..Len(users) :
                i # r.req.actor[1] => users'[i].password = users[i].password
     /\ ~(r.op = "POST /v1/user" /\ r.status = 201)
          /\ ~(r.op = "PUT /v1/user/:userId" /\ r.status = 204)
        => [i \in 1..Len(users') |-> users'[i].password]
             = [i \in 1..Len(users) |-> users[i].password]
     /\ r.op = "GET /v1/user/self"
        => /\ r.status = 200 <=> (r.req.cred # None /\ Opens(r.req.cred[1]) # {})
           /\ r.status = 200 => r.req.actor[1] \in Opens(r.req.cred[1])
           /\ r.status # 200 => (r.status = 401 /\ r.msg = "unauthorized" /\ r.body = None)
    ]_vars

\* C24 witness: after a profile update replaced the secret of identity 1, the
\* secret it registered with is refused
C24_OldSecretRefused ==
  /\ resp.op = "GET /v1/user/self"
  /\ resp.status = 401
  /\ resp.req.cred = Some([email |-> "a@x.io", password |-> "pw1"])
  /\ users[1].password[3] = "pw2"

\* C25: an identity that is verified stays verified in every later state and
\* keeps neither token nor expiry, whatever registration, verification or
\* profile update step follows, also the save of a profile update that loaded
\* the row before the verification was saved.
C25_VerifiedIsAbsorbing ==
  [][\A i \in 1..Len(users) :
       users[i].email_verified
         => /\ Len(users') >= i
            /\ users'[i].email_verified
            /\ users'[i].verification_token = None
            /\ users'[i].verification_token_expiry = None]_vars

\* C25 witness: a profile update that arrived before the verification was
\* saved after it, and the identity is verified
C25_StaleUpdateSavedAfterVerify ==
  /\ resp.op = "PUT /v1/user/:userId"
  /\ resp.status = 204
  /\ users[1].email_verified
  /\ users[1].first_name = "f2"
  /\ users[1].verification_token = None

\* C26: a row is inserted with a token and an expiry 60 seconds after the
\* insertion; afterwards the token is never replaced by another token and the
\* expiry never moves; an identity that is unverified while the clock is past
\* its expiry is unverified after every step.
C26_ExpiredStaysUnverified ==
  [][/\ Len(users') > Len(users)
        => /\ Len(users') = Len(users) + 1
           /\ users'[Len(users')].verification_token # None
           /\ users'[Len(users')].verification_token_expiry = Some(now + TokenTTL)
     /\ \A i \in 1..Len(users) :
          /\ users'[i].verification_token \in {users[i].verification_token, None}
          /\ users'[i].verification_token_expiry
               \in {users[i].verification_token_expiry, None}
          /\ (/\ ~users[i].email_verified
              /\ users[i].verification_token_expiry # None
              /\ now > users[i].verification_token_expiry[1])
             => ~users'[i].email_verified]_vars

\* C27: when a PUT of the owner is answered 204, the five stored fields of
\* the product are those of its body, also when another PUT of the same
\* product was loaded before this save and saved before it: the row is that
\* of the request that saved last, never a mixture of the two bodies.
C27_LastWriterWins ==
  [][(resp'.op = "PUT /v1/product/:productId" /\ resp'.status = 204)
       => \A k \in ProductFields :
            products'[resp'.req.pid][k] = resp'.req.body[k]]_vars

\* C28: in every state, each row of Images names a key under which the bucket
\* holds an object.
C28_RowsHaveBytes ==
  \A i \in Present(images) : ObjectsAt(images[i].s3_bucket_path) # {}

\* C29: an upload that is not answered 201 leaves the Images table and the
\* bucket as they were: no row and no object of the request remains.
C29_FailedUploadLeavesNothing ==
  [][(resp'.op = "POST /v1/product/:productId/image" /\ resp'.status # 201)
       => UNCHANGED <<images, store>>]_vars

ImageItemOps ==
  {"GET /v1/product/:productId/image/:imageId",
   "DELETE /v1/product/:productId/image/:imageId"}

\* C30: an image is returned or deleted only when the caller owns the product
\* of the path and the image is an image of that product; when the caller
\* owns the product of the path and the image belongs to another product, the
\* answer is 404 (500 when a collaborator failed) and no row or object is
\* removed; the key of every Images row and of every object is
\* userId/productId/uuid.ext with the product of the row and, while that
\* product exists, its owner.
C30_ImageOnlyThroughItsProduct ==
  [][LET r == resp'
         pid == r.req.pid
         iid == r.req.iid
     IN
     /\ r.op \in ImageItemOps
        => /\ r.status \in {200, 204}
              => /\ pid \in Present(products)
                 /\ products[pid].owner_user_id = r.req.actor[1]
                 /\ iid \in Present(images)
                 /\ images[iid].product_id = pid
           /\ (/\ r.req.actor # None
               /\ pid \in Present(products)
               /\ products[pid].owner_user_id = r.req.actor[1]
               /\ iid \in Present(images)
               /\ images[iid].product_id # pid)
              => /\ UNCHANGED <<images, store>>
                 /\ r.status = IF r.upstream THEN 500 ELSE 404
     /\ \A i \in Present(images') :
          LET key == images'[i].s3_bucket_path IN
          /\ DOMAIN key = {"userId", "productId", "uuid", "ext"}
          /\ key.productId = images'[i].product_id
          /\ key.productId \in Present(products')
          /\ key.userId = products'[key.productId].owner_user_id
     /\ \A o \in store' :
          /\ DOMAIN o.key = {"userId", "productId", "uuid", "ext"}
          /\ o.key.productId \in 1..Len(products')
          /\ o.key.productId \in Present(products')
               => o.key.userId = products'[o.key.productId].owner_user_id
    ]_vars

\* C30 witness: the caller owns two products and asked to delete, through
\* one of them, the image of the other: 404, the row and its object remain
C30_OtherProductsImage404 ==
  /\ resp.op = "DELETE /v1/product/:productId/image/:imageId"
  /\ resp.status = 404
  /\ resp.req.iid \in Present(images)
  /\ images[resp.req.iid].product_id # resp.req.pid
  /\ resp.req.pid \in Present(products)
  /\ products[resp.req.pid].owner_user_id = resp.req.actor[1]
  /\ products[images[resp.req.iid].product_id].owner_user_id = resp.req.actor[1]
  /\ ObjectsAt(images[resp.req.iid].s3_bucket_path) # {}

====
